---- MODULE Spec2Model ----
(***************************************************************************)
(* Model of the STRIDE-GPT GitHub Action: entrypoint.main, the             *)
(* ActionAnalyzer operations, StrideClient.analyze under its tenacity      *)
(* retry decorator, and the CommentReporter posting step.                  *)
(*                                                                         *)
(* Text is modelled as sequences of one-character strings so that          *)
(* startswith, lower, strip, substring search and the command regex are    *)
(* computed rather than assumed.  Python dicts are functions on the set of *)
(* keys that are present; d.get(k, default) is Get(d, k, default).         *)
(***************************************************************************)
EXTENDS Integers, Sequences, FiniteSets, TLC

(***************************************************************************)
(* Bounds of the model                                                     *)
(***************************************************************************)
\* longest threat list an API response carries
MaxThreats == 2
\* largest summary.total an API response carries
MaxTotal == 3

(***************************************************************************)
(* Text helpers (Python str operations)                                    *)
(***************************************************************************)
UpperChars ==
  <<"A","B","C","D","E","F","G","H","I","J","K","L","M",
    "N","O","P","Q","R","S","T","U","V","W","X","Y","Z">>
LowerChars ==
  <<"a","b","c","d","e","f","g","h","i","j","k","l","m",
    "n","o","p","q","r","s","t","u","v","w","x","y","z">>

\* the lower-case letter of each upper-case letter
LowerOf ==
  [c \in {UpperChars[i] : i \in 1..Len(UpperChars)} |->
     LowerChars[CHOOSE i \in 1..Len(UpperChars) : UpperChars[i] = c]]

\* str.lower() on one character of the model's alphabet
LowerChar(c) == IF c \in DOMAIN LowerOf THEN LowerOf[c] ELSE c

\* str.lower()
Lower(s) == [i \in 1..Len(s) |-> LowerChar(s[i])]

\* the upper-case letter of each lower-case letter
UpperOf ==
  [c \in {LowerChars[i] : i \in 1..Len(LowerChars)} |->
     UpperChars[CHOOSE i \in 1..Len(LowerChars) : LowerChars[i] = c]]

\* str.upper() on one character of the model's alphabet
UpperChar(c) == IF c \in DOMAIN UpperOf THEN UpperOf[c] ELSE c

\* a cased character
IsLetter(c) == c \in DOMAIN LowerOf \/ c \in DOMAIN UpperOf

\* str.title(): a letter that follows no letter is put in upper case, every
\* other letter in lower case
Title(s) ==
  [i \in 1..Len(s) |->
     IF i = 1 \/ ~IsLetter(s[i - 1]) THEN UpperChar(s[i]) ELSE LowerChar(s[i])]

\* str.startswith(p)
StartsWith(s, p) == Len(p) <= Len(s) /\ SubSeq(s, 1, Len(p)) = p

\* p in s
Contains(s, p) ==
  \/ Len(p) = 0
  \/ \E i \in 1..(Len(s) - Len(p) + 1) : SubSeq(s, i, i + Len(p) - 1) = p

\* whitespace as seen by str.strip() and by the regex class \s
IsSpace(c) == c \in {" ", "\t", "\n"}

\* the regex class \w over the model's alphabet
IsWord(c) == c \notin {" ", "\t", "\n", "@", "-", "/", ":", ".", "?", "!", ","}

\* str.strip()
Strip(s) ==
  LET keep == {i \in 1..Len(s) : ~IsSpace(s[i])}
  IN  IF keep = {} THEN <<>>
      ELSE LET lo == CHOOSE i \in keep : \A j \in keep : i <= j
               hi == CHOOSE i \in keep : \A j \in keep : j <= i
           IN  SubSeq(s, lo, hi)

\* dict.get(k, default)
Get(d, k, default) == IF k \in DOMAIN d THEN d[k] ELSE default

\* the empty dict {}
EmptyDict == <<>>

\* Python's None where a string is expected
None == "<None>"

\* the dicts that either lack key k or map it to one of vals
OptField(k, vals) == {EmptyDict} \cup {k :> v : v \in vals}

(***************************************************************************)
(* Exceptions                                                              *)
(***************************************************************************)
Exc(cls, msg) == [cls |-> cls, msg |-> msg, data |-> <<>>, cause |-> <<>>]

NoExc == Exc("", "")

\* the classes an exception of class cls is an instance of
Bases(cls) ==
  IF cls \in {"PaymentRequiredError", "ForbiddenError", "RateLimitError"}
  THEN {cls, "StrideAPIError", "Exception"}
  ELSE {cls, "Exception"}

IsInstance(e, cls) == cls \in Bases(e.cls)

TimeoutMsg == "Analysis request timed out. Large repositories may take longer to analyze. Consider using a smaller repository or contact support if this persists."
PrivateMsg == "Private repositories require a paid STRIDE-GPT plan. Visit https://stridegpt.ai/pricing to upgrade."
LimitMsg == "Monthly limit reached. Please upgrade your plan."
InvalidKeyMsg == "Invalid API key or insufficient permissions."
RateLimitMsg == "Rate limit exceeded. Please try again later."

\* tenacity.RetryError raised from the last attempt's exception
RetryError(last) ==
  [cls |-> "RetryError", msg |-> "RetryError", data |-> <<>>, cause |-> <<last>>]

(***************************************************************************)
(* Outcomes of calls: a returned value or a raised exception               *)
(***************************************************************************)
NoOutcome == [kind |-> "none", value |-> EmptyDict, exc |-> NoExc]
Return(v) == [kind |-> "return", value |-> v, exc |-> NoExc]
Raise(e) == [kind |-> "raise", value |-> EmptyDict, exc |-> e]

(***************************************************************************)
(* What the network can answer to one POST /api/v1/analyze                 *)
(***************************************************************************)
PrivateWord == <<"p","r","i","v","a","t","e">>

\* a JSON value that is a string, or JSON null
JStr(s) == [t |-> "str", s |-> s]
JNull == [t |-> "null", s |-> <<>>]

Details ==
  { JStr(<<"P","r","i","v","a","t","e"," ","r","e","p","o">>),
    JStr(<<"l","i","m","i","t">>),
    JStr(<<"p","r","i","v","a","t">>),
    JNull }

\* an HTTP body: empty content, content that is not JSON, or a JSON object
Body(tag, json) == [tag |-> tag, json |-> json]

ErrorBodies ==
  {Body("empty", EmptyDict), Body("invalid", EmptyDict)}
    \cup {Body("dict", d) : d \in OptField("detail", Details)}

Threat(i) == [id |-> i]

\* threat lists in ascending and in descending order of id
ThreatLists ==
  {[i \in 1..n |-> Threat(i)] : n \in 0..MaxThreats}
    \cup {[i \in 1..n |-> Threat(n + 1 - i)] : n \in 2..MaxThreats}
Totals == {0, MaxTotal}
Metadatas == {[limit_reached |-> TRUE], [plan |-> "FREE"]}

\* JSON objects of a 2xx answer that carry at most the fields that decide
\* the count, the list and the usage info of the result
CoreResponses ==
  { a @@ b @@ f :
      a \in OptField("threats", ThreatLists),
      b \in OptField("summary", {[total |-> n] : n \in Totals}),
      f \in OptField("metadata", Metadatas) }

\* JSON objects of a 2xx answer; every field may be missing
Responses ==
  { r @@ c @@ d @@ e @@ g :
      r \in CoreResponses,
      c \in OptField("truncated", BOOLEAN),
      d \in OptField("upgrade_message", {"Upgrade for more threats"}),
      e \in OptField("limitation_notice", {"Showing 3 of 5 threats"}),
      g \in OptField("analysis_id", {"ana_test123"}) }

\* a truncated answer with every field present
FullResponse ==
  [threats |-> <<Threat(1)>>, summary |-> [total |-> MaxTotal],
   truncated |-> TRUE, upgrade_message |-> "Upgrade for more threats",
   limitation_notice |-> "Showing 3 of 5 threats",
   metadata |-> [plan |-> "FREE"], analysis_id |-> "ana_test123"]

\* the 2xx answers drawn when the whole run is explored
WireResponses == CoreResponses \cup {FullResponse}

Transport(kind) == [kind |-> kind, status |-> 0, body |-> Body("empty", EmptyDict)]
Response(status, body) == [kind |-> "response", status |-> status, body |-> body]

PostOutcomes ==
  {Transport("timeout"), Transport("connect_error")}
    \cup {Response(s, b) : s \in {402, 403}, b \in ErrorBodies}
    \cup {Response(s, Body("empty", EmptyDict)) : s \in {429, 500}}
    \cup {Response(200, Body("dict", r)) : r \in WireResponses}

\* a short name of an outcome, kept in the attempt log
OutcomeTag(o) ==
  IF o.kind # "response" THEN o.kind
  ELSE IF o.status = 200 THEN "2xx"
  ELSE IF o.status = 402 THEN "402"
  ELSE IF o.status = 403 THEN "403"
  ELSE IF o.status = 429 THEN "429"
  ELSE "5xx"

(***************************************************************************)
(* StrideClient.analyze: one execution of the decorated function body      *)
(***************************************************************************)
\* error_data.get("detail", default) inside the try/except of the 402 and
\* 403 branches: empty content is {}, content that is not JSON is the
\* except branch
error_detail(body, default) ==
  IF body.tag = "dict" THEN Get(body.json, "detail", default) ELSE default

is_private_detail(detail) == Contains(Lower(detail.s), PrivateWord)

analyze_body(o) ==
  IF o.kind = "timeout" THEN Raise(Exc("StrideAPIError", TimeoutMsg))
  ELSE IF o.kind = "connect_error" THEN Raise(Exc("ConnectError", "connect"))
  ELSE IF o.status = 402 THEN
    LET error_message == error_detail(o.body, JStr(<<>>))
    IN  IF error_message.t # "str"
        THEN Raise(Exc("AttributeError", "no attribute 'lower'"))
        ELSE IF is_private_detail(error_message)
        THEN Raise(Exc("PaymentRequiredError", PrivateMsg))
        ELSE Raise(Exc("PaymentRequiredError", LimitMsg))
  ELSE IF o.status = 403 THEN
    LET error_message == error_detail(o.body, JNull)
    IN  IF o.body.tag = "dict" /\ "detail" \in DOMAIN o.body.json
        THEN Raise([Exc("ForbiddenError", "{detail}") EXCEPT !.data = <<error_message>>])
        ELSE Raise(Exc("ForbiddenError", InvalidKeyMsg))
  ELSE IF o.status = 429 THEN Raise(Exc("RateLimitError", RateLimitMsg))
  ELSE IF o.status \notin 200..299 THEN Raise(Exc("HTTPStatusError", "status"))
  ELSE IF o.body.tag # "dict" THEN Raise(Exc("JSONDecodeError", "json"))
  ELSE Return(o.body.json)

\* stop=stop_after_attempt(3)
MaxAttempts == 3
\* variant: the stop condition lets one more attempt through
stop_after_attempt_late(attempt_number) == attempt_number >= MaxAttempts + 1
stop_after_attempt(attempt_number) == attempt_number >= MaxAttempts

\* tenacity's default retry predicate, retry_if_exception_type(Exception)
retry_if_exception(e) == IsInstance(e, "Exception")

(***************************************************************************)
(* The process environment read by main                                    *)
(***************************************************************************)
Mention == <<"@","s","t","r","i","d","e","-","g","p","t">>
W_help == <<"h","e","l","p">>
W_status == <<"s","t","a","t","u","s">>
W_analyze == <<"a","n","a","l","y","z","e">>

MentionUpper == <<"@","S","T","R","I","D","E","-","G","P","T">>
MentionMixed == <<"@","S","t","r","i","d","e","-","G","P","T">>

CommentBodies ==
  { Mention,
    Mention \o <<" ">> \o W_analyze,
    Mention \o <<" ">> \o W_help,
    Mention \o <<" ">> \o W_status,
    Mention \o <<" ">> \o <<"f","o","o">>,
    MentionUpper \o <<" ">> \o <<"H","E","L","P">>,
    <<"h","i">> }

\* comment bodies given to parse_command on its own: text before the
\* mention, the mention in three spellings, what separates it from the next
\* word, that word, and text after it; and bodies without a mention
ParseBodies ==
  { pre \o m \o sep \o w \o post :
      pre \in {<<>>, <<"H","e","y"," ">>},
      m \in {Mention, MentionUpper, MentionMixed},
      sep \in {<<>>, <<" ">>, <<" ", "\n">>, <<",", " ">>, <<"!">>},
      w \in {<<>>, W_help, <<"H","E","L","P">>, W_analyze, W_status,
             <<"u","n","k","n","o","w","n">>, <<"c","a","n">>, <<"a","_","1">>},
      post \in {<<>>, <<" ","t","h","i","s","?">>} }
    \cup { <<"h","i">>, <<>>, <<"s","t","r","i","d","e","-","g","p","t"," ","h","e","l","p">>,
           Mention \o <<",", " ">> \o Mention \o <<" ">> \o W_status }

HttpsPrefix == <<"h","t","t","p","s",":","/","/">>
GithubPrefix == HttpsPrefix \o <<"g","i","t","h","u","b",".","c","o","m","/">>

RepoNames ==
  { <<"o","/","n">>,
    GithubPrefix \o <<"o","/","n">>,
    <<"h","t","t","p",":","/","/","o","/","n">> }

\* values of GITHUB_REPOSITORY
EnvRepoNames == {<<"o","/","n">>, GithubPrefix \o <<"o","/","n">>}

\* fields of GITHUB_CONTEXT that main reads; number 0 stands for a missing
\* (or zero) number, which `not number` treats alike
Context(event_name, body, issue_number, pull_request, pr_number) ==
  [event_name |-> event_name, comment_body |-> body,
   issue_number |-> issue_number, pull_request |-> pull_request,
   pr_number |-> pr_number]

CommentContexts ==
  { Context(en, b, n, pr, 0) :
      en \in {"issue_comment", "push"}, b \in CommentBodies,
      n \in {0, 42}, pr \in BOOLEAN }

PrContexts == {Context("pull_request", <<>>, 0, FALSE, n) : n \in {0, 7}}

OtherContexts == {Context("workflow_dispatch", <<>>, 0, FALSE, 0)}

Environments ==
  { [api_key |-> k, github_token |-> t, repo_name |-> r,
     trigger_mode |-> m.mode, github_context |-> m.ctx] :
      k \in {"", "sk_test"}, t \in {"", "ghp_test"},
      r \in EnvRepoNames \cup {<<>>},
      m \in {[mode |-> "comment", ctx |-> c] : c \in CommentContexts}
            \cup {[mode |-> "pr", ctx |-> c] : c \in PrContexts}
            \cup {[mode |-> mm, ctx |-> c] :
                    mm \in {"manual", "schedule"}, c \in OtherContexts} }

(***************************************************************************)
(* State                                                                   *)
(***************************************************************************)
VARIABLES
  env,              \* the environment of the run (when main is running)
  pc,               \* position of the run
  exit_code,        \* -1 while running, else the process exit status
  github,           \* the GitHubClient (token, repo_name) and repo.private
  is_pull_request,  \* main's is_pull_request
  command,          \* main's command
  op,               \* the analyzer operation being executed
  number,           \* its pr_number / issue_number argument (0 for none)
  input,            \* files / feature_description fetched by the operation
  analysis_request, \* the request passed to stride.analyze
  attempt_number,   \* tenacity's attempt counter of the current call
  attempt_log,      \* outcomes of the POSTs of the current call
  last_post,        \* the network's answer to the most recent POST
  gwOutcome,        \* what stride.analyze returned or raised
  usage,            \* what the most recent stride.get_usage returned or raised
  anOutcome,        \* what the analyzer operation returned or raised
  calls,            \* how often each collaborator method was called
  call_log,         \* the calls the collaborators received, in order
  doc,              \* the rendered comment body
  comments,         \* comments created, in order
  outputs           \* output names written, in order

vars == <<env, pc, exit_code, github, is_pull_request, command, op, number,
          input, analysis_request, attempt_number, attempt_log, last_post,
          gwOutcome, usage,
          anOutcome, calls, call_log, doc, comments, outputs>>

mainVars == <<env, exit_code, is_pull_request, command>>
reportVars == <<doc, comments, outputs>>
clientVars == <<attempt_number, attempt_log, last_post, gwOutcome, usage>>

\* one call received by a collaborator (a mock's call_args and its answer)
Call(method, arg, result) == [method |-> method, arg |-> arg, result |-> result]

NoCalls ==
  [is_public_repo |-> 0, get_pr_files |-> 0, get_issue_description |-> 0,
   analyze |-> 0, post |-> 0, get_usage |-> 0]

Operations == {"analyze_pr", "analyze_feature_description", "analyze_repository"}

(***************************************************************************)
(* StrideClient.analyze under @retry: one POST attempt                     *)
(***************************************************************************)
\* The decorated call runs the body; a returned value ends the call; a
\* raised exception is retried unless the stop condition holds, in which
\* case RetryError is raised from it (reraise is left at its default).
retry_step(n, r) ==
  IF r.kind = "return" THEN r
  ELSE IF ~retry_if_exception(r.exc) THEN r
  ELSE IF stop_after_attempt(n) THEN Raise(RetryError(r.exc))
  ELSE NoOutcome

PostAttempt ==
  /\ pc = "gw_call"
  /\ \E o \in PostOutcomes :
       LET n == attempt_number + 1
           r == retry_step(n, analyze_body(o))
       IN  /\ attempt_number' = n
           /\ attempt_log' = Append(attempt_log, OutcomeTag(o))
           /\ last_post' = o
           /\ calls' = [calls EXCEPT !.post = @ + 1]
           /\ call_log' = call_log
           /\ gwOutcome' = r
           /\ pc' = IF r.kind = "none" THEN "gw_call" ELSE "gw_ret"
  /\ UNCHANGED <<mainVars, reportVars, github, op, number, input,
                 analysis_request, anOutcome, usage>>

(***************************************************************************)
(* GitHubClient                                                            *)
(***************************************************************************)
GitHubClient(token, name, private) ==
  [token |-> token, repo_name |-> name, private |-> private]

is_public_repo(gh) == ~gh.private

File(name, status) == [filename |-> name, status |-> status]

\* what pr.get_files() can list
RawFileLists ==
  { <<>>,
    <<File("a.py", "removed")>>,
    <<File("a.py", "modified")>>,
    <<File("a.py", "removed"), File("b.py", "added")>> }

get_pr_files(raw) == SelectSeq(raw, LAMBDA f : f.status # "removed")

\* what issue.body can be
IssueBodies ==
  { JNull, JStr(<<>>), JStr(<<" ", "\n">>), JStr(<<"f","e","a","t">>),
    JStr(<<" ", "x", " ">>) }

\* issue.body or ""
get_issue_description(body) == IF body.t = "str" THEN body.s ELSE <<>>

GithubException == Exc("GithubException", "github")

(***************************************************************************)
(* ActionAnalyzer                                                          *)
(***************************************************************************)
AnalysisResult(count, threats, id, usage_info, limited, upgrade, notice) ==
  [threat_count |-> count, threats |-> threats, analysis_id |-> id,
   usage_info |-> usage_info, is_limited |-> limited,
   upgrade_message |-> upgrade, limitation_notice |-> notice]

\* the result of the empty-input short-circuits
ZeroResult == AnalysisResult(0, <<>>, "", EmptyDict, FALSE, None, None)

SentinelMsg == "Monthly analysis limit reached. Upgrade to continue analyzing."

\* the result returned from `except PaymentRequiredError`
LimitSentinel ==
  AnalysisResult(0, <<>>, "", [limit_reached |-> TRUE], TRUE, SentinelMsg, None)

\* variant: the check of the repository's visibility is missing
public_gate_open(public) == NoOutcome
\* `if not self.github.is_public_repo(): raise ForbiddenError(...)`
public_gate(public) ==
  IF ~public THEN Raise(Exc("ForbiddenError", PrivateMsg)) ELSE NoOutcome

\* variant: the issue body is tested without being stripped
input_is_empty_unstripped(o, in) ==
  IF o = "analyze_pr" THEN Len(in) = 0
  ELSE IF o = "analyze_feature_description" THEN Len(in) = 0
  ELSE FALSE
\* `if not files` / `if not feature_description.strip()`
input_is_empty(o, in) ==
  IF o = "analyze_pr" THEN Len(in) = 0
  ELSE IF o = "analyze_feature_description" THEN Len(Strip(in)) = 0
  ELSE FALSE

\* variant: the prefix is added without looking at the name
repository_url_always(name) == GithubPrefix \o name
\* repository_url
repository_url(name) ==
  IF ~StartsWith(name, HttpsPrefix) THEN GithubPrefix \o name ELSE name

\* analysis_request
\* variant: the analyzer keeps the request of its first call and sends it
\* again
build_request_cached(o, gh, n, in) ==
  LET base == [repository |-> repository_url(gh.repo_name),
               github_token |-> gh.token]
  IN  IF analysis_request # EmptyDict THEN analysis_request
      ELSE IF o = "analyze_pr" THEN base @@ [pr_number |-> n]
      ELSE IF o = "analyze_feature_description"
      THEN base @@ [analysis_type |-> "feature_description",
                    options |-> [feature_description |-> in,
                                 issue_number |-> n]]
      ELSE base @@ [analysis_type |-> "full_repository"]
\* the analysis_request dict of the three operations
build_request(o, gh, n, in) ==
  LET base == [repository |-> repository_url(gh.repo_name),
               github_token |-> gh.token]
  IN  IF o = "analyze_pr" THEN base @@ [pr_number |-> n]
      ELSE IF o = "analyze_feature_description"
      THEN base @@ [analysis_type |-> "feature_description",
                    options |-> [feature_description |-> in,
                                 issue_number |-> n]]
      ELSE base @@ [analysis_type |-> "full_repository"]

\* variant: the count is always the length of the returned list
process_result_by_length(result) ==
  LET threats == Get(result, "threats", <<>>)
  IN  AnalysisResult(Len(threats),
                     threats,
                     Get(result, "analysis_id", ""),
                     Get(result, "metadata", EmptyDict),
                     Get(result, "truncated", FALSE),
                     Get(result, "upgrade_message", None),
                     Get(result, "limitation_notice", None))
\* the AnalysisResult built from a response
process_result(result) ==
  LET threats == Get(result, "threats", <<>>)
      summary == Get(result, "summary", EmptyDict)
  IN  AnalysisResult(Get(summary, "total", Len(threats)),
                     threats,
                     Get(result, "analysis_id", ""),
                     Get(result, "metadata", EmptyDict),
                     Get(result, "truncated", FALSE),
                     Get(result, "upgrade_message", None),
                     Get(result, "limitation_notice", None))

\* variant: the result of a successful response carries no usage_info
handle_gateway_without_metadata(gw) ==
  IF gw.kind = "return"
  THEN Return([process_result(gw.value) EXCEPT !.usage_info = EmptyDict])
  ELSE IF IsInstance(gw.exc, "PaymentRequiredError") THEN Return(LimitSentinel)
  ELSE Raise(gw.exc)
\* the try/except around `await self.stride.analyze(analysis_request)`
handle_gateway(gw) ==
  IF gw.kind = "return" THEN Return(process_result(gw.value))
  ELSE IF IsInstance(gw.exc, "PaymentRequiredError") THEN Return(LimitSentinel)
  ELSE Raise(gw.exc)

anFrame == <<mainVars, reportVars, clientVars, github, op, number>>

\* the public-repository check at the head of each operation
AnCheckPublic ==
  /\ pc = "an_start"
  /\ calls' = [calls EXCEPT !.is_public_repo = @ + 1]
  /\ call_log' = Append(call_log, Call("is_public_repo", <<>>, Return(is_public_repo(github))))
  /\ LET r == public_gate(is_public_repo(github))
     IN  IF r.kind = "raise"
         THEN anOutcome' = r /\ pc' = "an_done"
         ELSE /\ anOutcome' = anOutcome
              /\ pc' = IF op = "analyze_repository" THEN "an_submit"
                       ELSE "an_fetch"
  /\ UNCHANGED <<anFrame, input, analysis_request>>

\* files = self.github.get_pr_files(pr_number)
AnFetchFiles ==
  /\ pc = "an_fetch" /\ op = "analyze_pr"
  /\ calls' = [calls EXCEPT !.get_pr_files = @ + 1]
  /\ \/ \E raw \in RawFileLists :
          LET files == get_pr_files(raw)
          IN  /\ input' = files
              /\ call_log' = Append(call_log, Call("get_pr_files", number, Return(files)))
              /\ IF input_is_empty(op, files)
                 THEN anOutcome' = Return(ZeroResult) /\ pc' = "an_done"
                 ELSE anOutcome' = anOutcome /\ pc' = "an_submit"
     \/ /\ anOutcome' = Raise(GithubException)
        /\ call_log' = Append(call_log, Call("get_pr_files", number, Raise(GithubException)))
        /\ pc' = "an_done"
        /\ input' = input
  /\ UNCHANGED <<anFrame, analysis_request>>

\* feature_description = self.github.get_issue_description(issue_number)
AnFetchIssue ==
  /\ pc = "an_fetch" /\ op = "analyze_feature_description"
  /\ calls' = [calls EXCEPT !.get_issue_description = @ + 1]
  /\ \/ \E body \in IssueBodies :
          LET feature_description == get_issue_description(body)
          IN  /\ input' = feature_description
              /\ call_log' = Append(call_log, Call("get_issue_description", number,
                                                   Return(feature_description)))
              /\ IF input_is_empty(op, feature_description)
                 THEN anOutcome' = Return(ZeroResult) /\ pc' = "an_done"
                 ELSE anOutcome' = anOutcome /\ pc' = "an_submit"
     \/ /\ anOutcome' = Raise(GithubException)
        /\ call_log' = Append(call_log, Call("get_issue_description", number,
                                             Raise(GithubException)))
        /\ pc' = "an_done"
        /\ input' = input
  /\ UNCHANGED <<anFrame, analysis_request>>

\* build the request and call self.stride.analyze(analysis_request)
AnSubmit ==
  /\ pc = "an_submit"
  /\ analysis_request' = build_request(op, github, number, input)
  /\ calls' = [calls EXCEPT !.analyze = @ + 1]
  /\ call_log' = Append(call_log, Call("analyze", analysis_request', NoOutcome))
  /\ attempt_number' = 0
  /\ attempt_log' = <<>>
  /\ pc' = "gw_call"
  /\ UNCHANGED <<mainVars, reportVars, github, op, number, input, last_post,
                 gwOutcome, anOutcome, usage>>

\* the call has returned or raised: build the result or handle the error;
\* the call is over and its retry state is gone
AnReceive ==
  /\ pc = "gw_ret"
  /\ anOutcome' = handle_gateway(gwOutcome)
  /\ call_log' = [call_log EXCEPT ![Len(call_log)].result = gwOutcome]
  /\ pc' = "an_done"
  /\ attempt_number' = 0
  /\ attempt_log' = <<>>
  /\ UNCHANGED <<mainVars, reportVars, github, op, number, input,
                 analysis_request, calls, last_post, gwOutcome, usage>>

(***************************************************************************)
(* The analyzer with an arbitrary collaborator in place of StrideClient    *)
(***************************************************************************)
GatewayErrors ==
  { Exc("PaymentRequiredError", LimitMsg),
    Exc("PaymentRequiredError", PrivateMsg),
    Exc("ForbiddenError", InvalidKeyMsg),
    Exc("RateLimitError", RateLimitMsg),
    Exc("StrideAPIError", TimeoutMsg),
    Exc("HTTPStatusError", "status"),
    RetryError(Exc("PaymentRequiredError", LimitMsg)) }

\* result = await self.stride.analyze(analysis_request), any collaborator
StubAnalyze ==
  /\ pc = "gw_call"
  /\ \E r \in {Return(b) : b \in Responses} \cup {Raise(e) : e \in GatewayErrors} :
       gwOutcome' = r
  /\ pc' = "gw_ret"
  /\ UNCHANGED <<mainVars, reportVars, github, op, number, input,
                 analysis_request, anOutcome, calls, call_log, attempt_number,
                 attempt_log, last_post, usage>>

(***************************************************************************)
(* entrypoint.parse_command                                                *)
(***************************************************************************)
\* the result None of parse_command; group(1) of the regex is never empty
NoCommand == <<>>

RECURSIVE SkipSpaces(_, _)
\* the first index at or after j that does not hold whitespace
SkipSpaces(s, j) ==
  IF j <= Len(s) /\ IsSpace(s[j]) THEN SkipSpaces(s, j + 1) ELSE j

RECURSIVE WordEnd(_, _)
\* the last index of the run of word characters that starts at j
WordEnd(s, j) ==
  IF j + 1 <= Len(s) /\ IsWord(s[j + 1]) THEN WordEnd(s, j + 1) ELSE j

\* r"@stride-gpt\s+(\w+)" matches s at index i
MatchAt(s, i) ==
  /\ i + Len(Mention) - 1 <= Len(s)
  /\ SubSeq(s, i, i + Len(Mention) - 1) = Mention
  /\ i + Len(Mention) <= Len(s)
  /\ IsSpace(s[i + Len(Mention)])
  /\ LET j == SkipSpaces(s, i + Len(Mention))
     IN  j <= Len(s) /\ IsWord(s[j])

\* variant: a mention that no word follows gives no command
parse_command_without_default(comment_body) ==
  LET s == Lower(comment_body)
      M == {i \in 1..Len(s) : MatchAt(s, i)}
  IN  IF M # {}
      THEN LET i == CHOOSE k \in M : \A m \in M : k <= m
               j == SkipSpaces(s, i + Len(Mention))
           IN  SubSeq(s, j, WordEnd(s, j))
      ELSE NoCommand
\* re.search(r"@stride-gpt\s+(\w+)", comment_body.lower()), then the default
parse_command(comment_body) ==
  LET s == Lower(comment_body)
      M == {i \in 1..Len(s) : MatchAt(s, i)}
  IN  IF M # {}
      THEN LET i == CHOOSE k \in M : \A m \in M : k <= m
               j == SkipSpaces(s, i + Len(Mention))
           IN  SubSeq(s, j, WordEnd(s, j))
      ELSE IF Contains(comment_body, Mention) THEN W_analyze
      ELSE NoCommand

(***************************************************************************)
(* entrypoint.main                                                         *)
(***************************************************************************)
Doc(template, detail) == [template |-> template, detail |-> detail]

Exit(code) == pc' = "exited" /\ exit_code' = code

anVars == <<op, number, input, analysis_request, anOutcome>>

\* variant: the test of GITHUB_REPOSITORY is missing
missing_inputs_without_repo(e) == e.api_key = "" \/ e.github_token = ""
\* `if not api_key`, `if not github_token`, `if not repo_name`
missing_inputs(e) ==
  e.api_key = "" \/ e.github_token = "" \/ Len(e.repo_name) = 0

\* required inputs: STRIDE_API_KEY, GITHUB_TOKEN, GITHUB_REPOSITORY
MainValidate ==
  /\ pc = "start"
  /\ IF missing_inputs(env)
     THEN Exit(1)
     ELSE pc' = "construct" /\ exit_code' = exit_code
  /\ UNCHANGED <<env, is_pull_request, command, github, anVars, clientVars,
                 calls, call_log, reportVars>>

\* the clients are constructed; GitHubClient.__init__ looks the repository up
MainConstruct ==
  /\ pc = "construct"
  /\ \/ /\ github' = GitHubClient(env.github_token, env.repo_name, github.private)
        /\ pc' = "dispatch" /\ exit_code' = exit_code
     \/ /\ Exit(1)
        /\ github' = github
  /\ UNCHANGED <<env, is_pull_request, command, anVars, clientVars, calls,
                 call_log,
                 reportVars>>

StartOperation(o, n) ==
  /\ pc' = "an_start" /\ op' = o /\ number' = n /\ exit_code' = exit_code

\* variant: the mention is looked for in the lower-cased body
mentions_bot_any_case(comment_body) == Contains(Lower(comment_body), Mention)
\* `"@stride-gpt" in comment_body`
mentions_bot(comment_body) == Contains(comment_body, Mention)

\* variant: a command that is none of the three runs the analysis
dispatch_defaults_to_analyze(cmd) ==
  IF cmd = W_help THEN "cmd_help"
  ELSE IF cmd = W_status THEN "cmd_status"
  ELSE "an_start"
\* the if/elif chain on command: the branch main takes
dispatch(cmd) ==
  IF cmd = W_help THEN "cmd_help"
  ELSE IF cmd = W_status THEN "cmd_status"
  ELSE IF cmd = W_analyze THEN "an_start"
  ELSE "cmd_unknown"

\* variant: the analyze command always runs the pull-request analysis
comment_operation_always_pr(pull_request) == "analyze_pr"
\* `if is_pull_request: analyze_pr(...) else: analyze_feature_description(...)`
comment_operation(pull_request) ==
  IF pull_request THEN "analyze_pr" ELSE "analyze_feature_description"

\* the trigger-mode branches up to the first awaited call
MainClassify ==
  /\ pc = "dispatch"
  /\ LET ctx == env.github_context
     IN  IF env.trigger_mode = "comment" THEN
           IF ctx.event_name # "issue_comment" \/ ctx.issue_number = 0
           THEN Exit(1) /\ UNCHANGED <<is_pull_request, command, op, number>>
           ELSE IF ~mentions_bot(ctx.comment_body)
           THEN Exit(0) /\ UNCHANGED <<is_pull_request, command, op, number>>
           ELSE LET cmd == parse_command(ctx.comment_body)
                IN  /\ is_pull_request' = ctx.pull_request
                    /\ command' = cmd
                    /\ IF dispatch(cmd) = "an_start"
                       THEN StartOperation(comment_operation(ctx.pull_request),
                                           ctx.issue_number)
                       ELSE pc' = dispatch(cmd) /\ UNCHANGED <<exit_code, op, number>>
         ELSE IF env.trigger_mode = "pr" THEN
           IF ctx.pr_number = 0
           THEN Exit(1) /\ UNCHANGED <<is_pull_request, command, op, number>>
           ELSE /\ StartOperation("analyze_pr", ctx.pr_number)
                /\ UNCHANGED <<is_pull_request, command>>
         ELSE IF env.trigger_mode = "manual" THEN
           /\ StartOperation("analyze_repository", 0)
           /\ UNCHANGED <<is_pull_request, command>>
         ELSE Exit(1) /\ UNCHANGED <<is_pull_request, command, op, number>>
  /\ UNCHANGED <<env, github, input, analysis_request, anOutcome, clientVars,
                 calls, call_log, reportVars>>

\* self.github.create_comment / create_issue_comment
\* variant: every comment goes through the pull-request accessor
thread_of_always_pr(pull_request) == "pr"
\* the thread a comment is created on: repo.get_pull(n) or repo.get_issue(n)
thread_of(pull_request) == IF pull_request THEN "pr" ELSE "issue"

CreateComment(n, body) ==
  comments' = Append(comments,
                     [thread |-> thread_of(is_pull_request),
                      number |-> n, body |-> body])

\* a command that only posts a fixed or templated document
PostAndFinish(body) ==
  /\ \/ CreateComment(env.github_context.issue_number, body) /\ Exit(0)
     \/ comments' = comments /\ Exit(1)
  /\ doc' = body
  /\ UNCHANGED <<env, is_pull_request, command, github, anVars, clientVars,
                 outputs>>

\* reporter.post_help_comment
MainHelp ==
  /\ pc = "cmd_help"
  /\ PostAndFinish(Doc("help", <<>>))
  /\ calls' = calls /\ call_log' = call_log

\* what GET /api/v1/usage can answer with a 2xx status
W_free == <<"f","r","e","e">>
W_Free == <<"F","r","e","e">>
W_pro == <<"p","r","o">>

\* the JSON body of a usage answer: every field may be missing, plan may be
\* null
UsageSnapshots ==
  { EmptyDict,
    [plan |-> JStr(W_pro), analyses_used |-> 7, analyses_limit |-> 2500],
    [plan |-> JNull, analyses_used |-> 1, analyses_limit |-> 20] }

\* StrideClient.get_usage: the JSON body, or the error of raise_for_status
GetUsageOutcomes ==
  {Return(u) : u \in UsageSnapshots} \cup {Raise(Exc("HTTPStatusError", "status"))}

\* usage = await stride_client.get_usage()
MainStatusFetch ==
  /\ pc = "cmd_status"
  /\ calls' = [calls EXCEPT !.get_usage = @ + 1]
  /\ \E r \in GetUsageOutcomes :
       /\ usage' = r
       /\ call_log' = Append(call_log, Call("get_usage", <<>>, r))
       /\ IF r.kind = "return"
          THEN pc' = "cmd_status_post" /\ exit_code' = exit_code
          ELSE Exit(1)
  /\ UNCHANGED <<env, is_pull_request, command, github, anVars,
                 attempt_number, attempt_log, last_post, gwOutcome, reportVars>>

\* the body post_status_comment builds; usage.get("plan", "Free").title()
\* raises AttributeError when plan is null
format_status(u) ==
  LET analyses_used == Get(u, "analyses_used", 0)
      analyses_limit == Get(u, "analyses_limit", 20)
      plan == Get(u, "plan", JStr(W_Free))
  IN  IF plan.t # "str"
      THEN Raise(Exc("AttributeError", "no attribute 'title'"))
      ELSE Return(Doc("status",
             [analyses_used |-> analyses_used,
              analyses_limit |-> analyses_limit,
              remaining |-> analyses_limit - analyses_used,
              plan |-> Title(plan.s),
              upgrade_prompt |-> (Lower(plan.s) = W_free)]))

\* reporter.post_status_comment
MainStatusPost ==
  /\ pc = "cmd_status_post"
  /\ LET r == format_status(usage.value)
     IN  IF r.kind = "raise"
         THEN /\ Exit(1)
              /\ UNCHANGED <<env, is_pull_request, command, github, anVars,
                             clientVars, reportVars>>
         ELSE PostAndFinish(r.value)
  /\ calls' = calls /\ call_log' = call_log

\* reporter.post_error_comment for a command that is none of the three
MainUnknown ==
  /\ pc = "cmd_unknown"
  /\ PostAndFinish(Doc("error", command))
  /\ calls' = calls /\ call_log' = call_log

\* variant: an exception of the operation is swallowed and main goes on to
\* its last step
MainAfterAnalyze_swallowed ==
  /\ pc = "an_done"
  /\ pc' = IF anOutcome.kind = "raise" \/ env.trigger_mode = "manual"
           THEN "write_outputs" ELSE "render"
  /\ exit_code' = exit_code
  /\ UNCHANGED <<env, is_pull_request, command, github, anVars, clientVars,
                 calls, call_log, reportVars>>
\* the analyzer operation has returned to main or raised into its handler
MainAfterAnalyze ==
  /\ pc = "an_done"
  /\ IF anOutcome.kind = "raise" THEN Exit(1)
     ELSE /\ pc' = IF env.trigger_mode = "manual" THEN "write_outputs"
                   ELSE "render"
          /\ exit_code' = exit_code
  /\ UNCHANGED <<env, is_pull_request, command, github, anVars, clientVars,
                 calls, call_log, reportVars>>

\* variant: the zero-threat test comes before the limit test
select_template_zero_first(result) ==
  IF result.threat_count = 0 THEN "no_threats"
  ELSE IF Get(result.usage_info, "limit_reached", FALSE) THEN "limit_reached"
  ELSE "threats"
\* the template chosen by post_analysis_comment
select_template(result) ==
  IF Get(result.usage_info, "limit_reached", FALSE) THEN "limit_reached"
  ELSE IF result.threat_count = 0 THEN "no_threats"
  ELSE "threats"

\* get_usage calls made while formatting: plan lookup and usage footer
usage_fetches(template) == IF template = "limit_reached" THEN 0 ELSE 2

W_critical == <<"c","r","i","t","i","c","a","l">>
W_high == <<"h","i","g","h">>
W_medium == <<"m","e","d","i","u","m">>
W_low == <<"l","o","w">>
W_info == <<"i","n","f","o">>

\* severity_order
severity_order ==
  (W_critical :> 0) @@ (W_high :> 1) @@ (W_medium :> 2) @@ (W_low :> 3)
    @@ (W_info :> 4)

\* severity_emoji, each emoji named after its key
severity_emoji ==
  (W_critical :> "critical") @@ (W_high :> "high") @@ (W_medium :> "medium")
    @@ (W_low :> "low") @@ (W_info :> "info")

\* threat.get("severity", "medium"): a JSON value
severity_value(threat) == Get(threat, "severity", JStr(W_medium))

\* .lower() raises AttributeError on a value that is not a string
severity_raises(threat) == severity_value(threat).t # "str"

\* threat.get("severity", "medium").lower()
severity_key(threat) == Lower(severity_value(threat).s)

\* variant: a severity that is not in the table is ranked after info
severity_rank_unknown_last(threat) == Get(severity_order, severity_key(threat), 5)
\* the sort key: severity_order.get(<severity>.lower(), 2)
severity_rank(threat) == Get(severity_order, severity_key(threat), 2)

RECURSIVE sorted_threats(_)
\* sorted(result.threats, key=...): Python's sort is stable, so each threat
\* goes after the threats before it whose key is not larger
sorted_threats(threats) ==
  IF threats = <<>> THEN <<>>
  ELSE LET n == Len(threats)
           front == sorted_threats(SubSeq(threats, 1, n - 1))
           x == threats[n]
           k == Cardinality({i \in 1..Len(front) :
                               severity_rank(front[i]) <= severity_rank(x)})
       IN  SubSeq(front, 1, k) \o <<x>> \o SubSeq(front, k + 1, Len(front))

RECURSIVE tally_severities(_, _)
\* the loop `severity_counts[severity] = severity_counts.get(severity, 0) + 1`
tally_severities(threats, severity_counts) ==
  IF threats = <<>> THEN severity_counts
  ELSE LET severity == severity_key(Head(threats))
       IN  tally_severities(Tail(threats),
             (severity :> (Get(severity_counts, severity, 0) + 1))
               @@ severity_counts)

\* severity_counts after the loop, from the five zero buckets
severity_counts(threats) ==
  tally_severities(threats,
    (W_critical :> 0) @@ (W_high :> 0) @@ (W_medium :> 0) @@ (W_low :> 0)
      @@ (W_info :> 0))

\* plan_name of the formatters: current_usage.get("plan", "free").title()
\* inside try/except Exception, "Free" on any failure
plan_name(u) ==
  IF u.kind # "return" THEN W_Free
  ELSE LET plan == Get(u.value, "plan", JStr(W_free))
       IN  IF plan.t # "str" THEN W_Free ELSE Title(plan.s)

\* variant: on a failed fetch the footer shows the default counts
usage_footer_defaults_on_failure(usage_info, u) ==
  LET plan == IF u.kind = "return" THEN Get(u.value, "plan", JStr(W_free)) ELSE JNull
  IN  IF plan.t # "str"
      THEN [analyses_used |-> 0, analyses_limit |-> 20, plan |-> W_free]
      ELSE [analyses_used |-> Get(u.value, "analyses_used", 0),
            analyses_limit |-> Get(u.value, "analyses_limit", 20),
            plan |-> Lower(Title(plan.s))]
\* _get_usage_footer: the counts and plan shown; an exception of the fetch or
\* of plan.title() falls back to the counts of usage_info and 'free'
usage_footer(usage_info, u) ==
  LET plan == IF u.kind = "return" THEN Get(u.value, "plan", JStr(W_free)) ELSE JNull
  IN  IF plan.t # "str"
      THEN [analyses_used |-> Get(usage_info, "analyses_used", 0),
            analyses_limit |-> Get(usage_info, "analyses_limit", 20),
            plan |-> W_free]
      ELSE [analyses_used |-> Get(u.value, "analyses_used", 0),
            analyses_limit |-> Get(u.value, "analyses_limit", 20),
            plan |-> Lower(Title(plan.s))]

\* truth value of an optional string
Truthy(text) == text # None /\ text # ""

GenericBanner == "Free Tier Limit Reached: Only 3 threats shown per analysis"

Banner(kind, text) == [kind |-> kind, text |-> text]

\* variant: the generic banner is tested with `if`, not `elif`
limitation_banners_both(result) ==
  (IF Truthy(result.limitation_notice)
   THEN <<Banner("notice", result.limitation_notice)>> ELSE <<>>)
    \o (IF result.is_limited THEN <<Banner("generic", GenericBanner)>> ELSE <<>>)
\* the limitation banners of the threat-listing document, in order
limitation_banners(result) ==
  IF Truthy(result.limitation_notice)
  THEN <<Banner("notice", result.limitation_notice)>>
  ELSE IF result.is_limited THEN <<Banner("generic", GenericBanner)>>
  ELSE <<>>

\* the threat-listing document: u1 answers the plan lookup, u2 the footer's
\* fetch; the sort raises before the footer is built
format_threats(result, u1, u2) ==
  IF \E i \in 1..Len(result.threats) : severity_raises(result.threats[i])
  THEN Raise(Exc("AttributeError", "no attribute 'lower'"))
  ELSE LET sorted == sorted_threats(result.threats)
       IN  Return(Doc("threats",
             [plan_name |-> plan_name(u1),
              threat_count |-> result.threat_count,
              max_note |-> result.is_limited,
              sorted_threats |-> sorted,
              emojis |-> [i \in 1..Len(sorted) |->
                           Get(severity_emoji, severity_key(sorted[i]), "medium")],
              severity_counts |-> severity_counts(sorted),
              banners |-> limitation_banners(result),
              footer |-> usage_footer(result.usage_info, u2)]))

\* _get_no_threats_upgrade_section: the section chosen for a plan
no_threats_upgrade_section(plan) ==
  IF plan = W_free THEN "free"
  ELSE IF plan = <<"s","t","a","r","t","e","r">> THEN "starter"
  ELSE IF plan = W_pro THEN "pro"
  ELSE IF plan = <<"e","n","t","e","r","p","r","i","s","e">> THEN "enterprise"
  ELSE "other"

\* the no-threats document
format_no_threats(result, u1, u2) ==
  Return(Doc("no_threats",
    [plan_name |-> plan_name(u1),
     analysis_type |-> IF Lower(plan_name(u1)) = W_free THEN "Basic" ELSE "Enhanced",
     upgrade_section |-> no_threats_upgrade_section(Lower(plan_name(u1))),
     footer |-> usage_footer(result.usage_info, u2)]))

\* the limit-reached document: a fixed text
format_limit_reached == Return(Doc("limit_reached", <<>>))

\* the body post_analysis_comment builds, or the exception of its formatter
format_analysis(result, u1, u2) ==
  LET t == select_template(result)
  IN  IF t = "limit_reached" THEN format_limit_reached
      ELSE IF t = "no_threats" THEN format_no_threats(result, u1, u2)
      ELSE format_threats(result, u1, u2)

\* post_analysis_comment: format the body.  The formatters of the threat
\* and no-threats documents call get_usage twice, for the plan name and for
\* the footer; an exception of the sort comes after the first call
RenderAnalysis ==
  /\ pc = "render"
  /\ LET result == anOutcome.value
         t == select_template(result)
     IN  IF usage_fetches(t) = 0
         THEN /\ doc' = format_analysis(result, NoOutcome, NoOutcome).value
              /\ pc' = "post" /\ exit_code' = exit_code
              /\ UNCHANGED <<calls, call_log, usage>>
         ELSE \E u1 \in GetUsageOutcomes, u2 \in GetUsageOutcomes :
                LET r == format_analysis(result, u1, u2)
                IN  IF r.kind = "raise"
                    THEN /\ doc' = doc
                         /\ calls' = [calls EXCEPT !.get_usage = @ + 1]
                         /\ call_log' = Append(call_log, Call("get_usage", <<>>, u1))
                         /\ usage' = u1
                         /\ Exit(1)
                    ELSE /\ doc' = r.value
                         /\ calls' = [calls EXCEPT !.get_usage = @ + usage_fetches(t)]
                         /\ call_log' = call_log \o <<Call("get_usage", <<>>, u1),
                                                     Call("get_usage", <<>>, u2)>>
                         /\ usage' = u2
                         /\ pc' = "post" /\ exit_code' = exit_code
  /\ UNCHANGED <<env, is_pull_request, command, github, anVars, attempt_number,
                 attempt_log, last_post, gwOutcome, comments, outputs>>

\* post_analysis_comment: create the comment on the PR or issue thread
PostComment ==
  /\ pc = "post"
  /\ \/ /\ CreateComment(number, doc)
        /\ pc' = "write_outputs" /\ exit_code' = exit_code
     \/ comments' = comments /\ Exit(1)
  /\ UNCHANGED <<env, is_pull_request, command, github, anVars, clientVars,
                 calls, call_log, doc, outputs>>

\* variant: every mode writes both outputs
output_names_always_both(mode) == <<"threat-count", "report-url">>
\* the outputs written for a trigger mode
output_names(mode) ==
  IF mode = "manual" THEN <<"threat-count">>
  ELSE <<"threat-count", "report-url">>

\* "Set outputs", then main returns
\* variant: the outputs are written without waiting for the comment
WriteOutputs_before_post ==
  /\ pc \in {"post", "write_outputs"}
  /\ outputs' = output_names(env.trigger_mode)
  /\ Exit(0)
  /\ UNCHANGED <<env, is_pull_request, command, github, anVars, clientVars,
                 calls, call_log, doc, comments>>
\* main: threat-count and report-url are written after the comment's URL is
\* known; manual mode writes threat-count alone
WriteOutputs ==
  /\ pc = "write_outputs"
  /\ outputs' = output_names(env.trigger_mode)
  /\ Exit(0)
  /\ UNCHANGED <<env, is_pull_request, command, github, anVars, clientVars,
                 calls, call_log, doc, comments>>

(***************************************************************************)
(* Specifications                                                          *)
(***************************************************************************)
InitCommon ==
  /\ exit_code = -1
  /\ command = NoCommand
  /\ input = <<>>
  /\ analysis_request = EmptyDict
  /\ attempt_number = 0
  /\ attempt_log = <<>>
  /\ last_post = Transport("none")
  /\ gwOutcome = NoOutcome
  /\ usage = NoOutcome
  /\ anOutcome = NoOutcome
  /\ calls = NoCalls
  /\ call_log = <<>>
  /\ doc = Doc("none", <<>>)
  /\ comments = <<>>
  /\ outputs = <<>>

\* one run of main
Init ==
  /\ env \in Environments
  /\ pc = "start"
  /\ \E private \in BOOLEAN : github = GitHubClient("", <<>>, private)
  /\ is_pull_request = TRUE
  /\ op = "none"
  /\ number = 0
  /\ InitCommon

Next ==
  \/ MainValidate
  \/ MainConstruct
  \/ MainClassify
  \/ MainHelp
  \/ MainStatusFetch
  \/ MainStatusPost
  \/ MainUnknown
  \/ AnCheckPublic
  \/ AnFetchFiles
  \/ AnFetchIssue
  \/ AnSubmit
  \/ PostAttempt
  \/ AnReceive
  \/ MainAfterAnalyze
  \/ RenderAnalysis
  \/ PostComment
  \/ WriteOutputs

Spec == Init /\ [][Next]_vars

\* one call of an ActionAnalyzer operation, the stride collaborator arbitrary
AnalyzerEnv(name) ==
  [api_key |-> "sk_test", github_token |-> "ghp_test", repo_name |-> name,
   trigger_mode |-> "none", github_context |-> Context("", <<>>, 0, FALSE, 0)]

AnalyzerInit ==
  /\ \E name \in RepoNames, private \in BOOLEAN :
       /\ env = AnalyzerEnv(name)
       /\ github = GitHubClient("ghp_test", name, private)
  /\ pc = "an_start"
  /\ is_pull_request = TRUE
  /\ op \in Operations
  /\ number = IF op = "analyze_repository" THEN 0 ELSE 42
  /\ InitCommon

AnalyzerNext ==
  \/ AnCheckPublic
  \/ AnFetchFiles
  \/ AnFetchIssue
  \/ AnSubmit
  \/ StubAnalyze
  \/ AnReceive

AnalyzerSpec == AnalyzerInit /\ [][AnalyzerNext]_vars

\* the severity field of a threat record: missing, a canonical name, a name
\* in another letter case, a name that is not in the table, or null
Severities ==
  { JStr(W_critical), JStr(W_high), JStr(W_medium), JStr(W_low), JStr(W_info),
    JStr(<<"H","I","G","H">>), JStr(<<"b","o","g","u","s">>), JNull }

\* longest threat list given to the reporter on its own
MaxRendered == 3

\* threat lists as the API returns them: the i-th record has id i
RenderedThreatLists ==
  UNION { { [i \in 1..n |-> Threat(i) @@ f[i]] :
              f \in [1..n -> OptField("severity", Severities)] } :
          n \in 0..MaxRendered }

\* results given to post_analysis_comment on its own
RenderedResults ==
  { AnalysisResult(MaxTotal, threats, "ana_test123", usage_info, FALSE, None, None) :
      threats \in RenderedThreatLists,
      usage_info \in {EmptyDict, [limit_reached |-> TRUE]} }
    \cup
  { AnalysisResult(0, [i \in 1..n |-> Threat(i)], "ana_test123", usage_info,
                   FALSE, None, None) :
      n \in 0..MaxThreats,
      usage_info \in {EmptyDict, [limit_reached |-> TRUE]} }
    \cup
  { AnalysisResult(MaxTotal, threats, "ana_test123", usage_info, limited, None, notice) :
      threats \in {[i \in 1..n |-> Threat(i)] : n \in 1..MaxThreats},
      usage_info \in {EmptyDict, [analyses_used |-> 5, analyses_limit |-> 50]},
      limited \in BOOLEAN,
      notice \in {None, "", "Showing 3 of 5 threats"} }

\* one call of post_analysis_comment(7, result, True) on a result of
\* `results`, or one call of post_status_comment(7, usage) on a snapshot of
\* `snapshots`
ReporterStart(results, snapshots) ==
  /\ env = [api_key |-> "sk_test", github_token |-> "ghp_test",
            repo_name |-> <<"o","/","n">>, trigger_mode |-> "pr",
            github_context |-> Context("pull_request", <<>>, 0, FALSE, 7)]
  /\ github = GitHubClient("ghp_test", <<"o","/","n">>, FALSE)
  /\ is_pull_request = TRUE
  /\ op = "analyze_pr"
  /\ number = 7
  /\ exit_code = -1
  /\ command = NoCommand
  /\ input = <<>>
  /\ analysis_request = EmptyDict
  /\ attempt_number = 0
  /\ attempt_log = <<>>
  /\ last_post = Transport("none")
  /\ gwOutcome = NoOutcome
  /\ \/ /\ pc = "render"
        /\ usage = NoOutcome
        /\ \E result \in results : anOutcome = Return(result)
     \/ /\ pc = "cmd_status_post"
        /\ \E u \in snapshots : usage = Return(u)
        /\ anOutcome = NoOutcome
  /\ calls = NoCalls
  /\ call_log = <<>>
  /\ doc = Doc("none", <<>>)
  /\ comments = <<>>
  /\ outputs = <<>>

ReporterInit == ReporterStart(RenderedResults, UsageSnapshots)

ReporterNext ==
  \/ RenderAnalysis
  \/ MainStatusPost
  \/ PostComment

ReporterSpec == ReporterInit /\ [][ReporterNext]_vars

\* ---- analyze_pr called several times on one ActionAnalyzer ----

MaxCalls == 2

PullNumbers == {42, 43}

\* what the stride client's analyze answers in these calls
IsolationOutcomes ==
  { Return(FullResponse),
    Return("threats" :> <<>>),
    Raise(Exc("PaymentRequiredError", LimitMsg)),
    Raise(Exc("RateLimitError", RateLimitMsg)) }

\* self.stride.analyze as a stub
StubAnalyzeFew ==
  /\ pc = "gw_call"
  /\ \E r \in IsolationOutcomes : gwOutcome' = r
  /\ pc' = "gw_ret"
  /\ UNCHANGED <<mainVars, reportVars, github, op, number, input,
                 analysis_request, anOutcome, calls, call_log, attempt_number,
                 attempt_log, last_post, usage>>

\* analyze_pr returns or raises to its caller, who calls it again with some
\* pull-request number; the locals of the finished call are gone
AnalyzeReturn ==
  /\ pc = "an_done"
  /\ call_log' = Append(call_log, Call("analyze_pr", number, anOutcome))
  /\ anOutcome' = NoOutcome
  /\ input' = <<>>
  /\ IF Cardinality({i \in 1..Len(call_log') : call_log'[i].method = "analyze_pr"})
          < MaxCalls
     THEN \E n \in PullNumbers : pc' = "an_start" /\ number' = n
     ELSE pc' = "idle" /\ number' = number
  /\ UNCHANGED <<mainVars, reportVars, clientVars, github, op,
                 analysis_request, calls>>

IsolationInit ==
  /\ env = AnalyzerEnv(<<"o","/","n">>)
  /\ \E private \in BOOLEAN :
       github = GitHubClient("ghp_test", <<"o","/","n">>, private)
  /\ pc = "an_start"
  /\ is_pull_request = TRUE
  /\ op = "analyze_pr"
  /\ number \in PullNumbers
  /\ InitCommon

IsolationNext ==
  \/ AnCheckPublic
  \/ AnFetchFiles
  \/ AnSubmit
  \/ StubAnalyzeFew
  \/ AnReceive
  \/ AnalyzeReturn

IsolationSpec == IsolationInit /\ [][IsolationNext]_vars

\* ---- post_analysis_comment called again with the same result ----

MaxRenders == 2

\* results rendered more than once
RepeatedResults ==
  { AnalysisResult(count, [i \in 1..n |-> Threat(i)], "ana_test123", usage_info,
                   FALSE, None, None) :
      n \in 0..MaxThreats,
      count \in {0, MaxTotal},
      usage_info \in {EmptyDict, [limit_reached |-> TRUE]} }

\* the caller passes the result it holds to post_analysis_comment once more
RenderAgain ==
  /\ pc = "write_outputs"
  /\ Len(comments) < MaxRenders
  /\ pc' = "render"
  /\ UNCHANGED <<env, is_pull_request, command, github, anVars, clientVars,
                 calls, call_log, reportVars, exit_code>>

RepeatInit == ReporterStart(RepeatedResults, {})

RepeatNext ==
  \/ RenderAnalysis
  \/ PostComment
  \/ RenderAgain

RepeatSpec == RepeatInit /\ [][RepeatNext]_vars

\* command = parse_command(comment_body)
ParseCommand ==
  /\ pc = "parse"
  /\ command' = parse_command(env.github_context.comment_body)
  /\ pc' = "parsed"
  /\ UNCHANGED <<env, exit_code, is_pull_request, github, anVars, clientVars,
                 calls, call_log, reportVars>>

\* one call of parse_command on a comment body
ParseInit ==
  /\ \E b \in ParseBodies :
       env = [api_key |-> "sk_test", github_token |-> "ghp_test",
              repo_name |-> <<"o","/","n">>, trigger_mode |-> "comment",
              github_context |-> Context("issue_comment", b, 42, FALSE, 0)]
  /\ pc = "parse"
  /\ github = GitHubClient("ghp_test", <<"o","/","n">>, FALSE)
  /\ is_pull_request = FALSE
  /\ op = "none"
  /\ number = 0
  /\ InitCommon

ParseNext == ParseCommand

ParseSpec == ParseInit /\ [][ParseNext]_vars

(***************************************************************************)
(* Properties                                                              *)
(***************************************************************************)
TransportTags == {"timeout", "connect_error"}

\* the operation of the run has finished and main has its outcome
AfterOperation == pc \in {"an_done", "render", "post", "write_outputs", "exited"}

\* the answer is a 402 whose detail is a string that does not mention
\* 'private', or is missing
IsLimit402(o) ==
  /\ o.kind = "response" /\ o.status = 402
  /\ LET d == IF o.body.tag = "dict" /\ "detail" \in DOMAIN o.body.json
              THEN o.body.json["detail"] ELSE JStr(<<>>)
     IN  d.t = "str" /\ ~Contains(Lower(d.s), PrivateWord)

\* C1: when the API answers the analyze POST with a 402 that does not
\* mention 'private', in comment mode and in pr mode the analyzer yields the
\* limit-reached sentinel, the limit-reached document is the comment posted,
\* and the run does not end with a non-zero status (other than because
\* GitHub refused the comment).
C1_LimitNeverFailsRun ==
  (AfterOperation /\ env.trigger_mode \in {"comment", "pr"} /\ IsLimit402(last_post))
    => /\ anOutcome = Return(LimitSentinel)
       /\ pc \in {"post", "write_outputs", "exited"} => doc.template = "limit_reached"
       /\ pc = "exited" =>
            \/ exit_code = 0 /\ Len(comments) = 1
                 /\ comments[1].body.template = "limit_reached"
            \/ exit_code = 1 /\ comments = <<>> /\ doc.template = "limit_reached"

\* C2: a POST is re-sent only after a transport-level failure: every attempt
\* that was followed by another attempt ended in a connection error or a
\* timeout, so a call that received an error status issued no further POST.
C2_RetryOnlyOnTransportFailure ==
  \A i \in 1..(Len(attempt_log) - 1) : attempt_log[i] \in TransportTags

\* C3: one call of StrideClient.analyze issues at most 3 POSTs; while the
\* call has not returned or raised fewer than 3 have been issued; and when
\* the first two attempts fail transiently and the third receives a 2xx
\* response, the call returns that response's JSON body after exactly 3 POSTs.
C3_AtMostThreeAttempts ==
  /\ attempt_number <= 3
  /\ calls.post <= 3
  /\ Len(attempt_log) = attempt_number
  /\ pc = "gw_call" => attempt_number < 3
  /\ (/\ pc = "gw_ret"
      /\ Len(attempt_log) = 3
      /\ attempt_log[1] \in TransportTags
      /\ attempt_log[2] \in TransportTags
      /\ attempt_log[3] = "2xx")
       => /\ gwOutcome.kind = "return"
          /\ gwOutcome.value = last_post.body.json
          /\ calls.post = 3

\* C3 witness: two transient failures, then a 2xx answer that is returned
C3_Witness ==
  /\ pc = "gw_ret"
  /\ attempt_log = <<"connect_error", "timeout", "2xx">>
  /\ gwOutcome = Return(FullResponse)

\* C4: the error the caller of StrideClient.analyze receives is the kind
\* that the last response determines: 402 with 'private' in detail is a plan
\* restriction, any other 402 a usage limit, 403 forbidden, 429 rate limited,
\* a timeout the timeout error, any other non-2xx a generic gateway error.
C4_ErrorKindByResponse ==
  (pc = "gw_ret" /\ gwOutcome.kind = "raise" /\ last_post.kind # "connect_error")
    => LET e == gwOutcome.exc
           o == last_post
           received ==
             IF e.cls = "PaymentRequiredError" /\ e.msg = PrivateMsg THEN "PlanRestriction"
             ELSE IF e.cls = "PaymentRequiredError" /\ e.msg = LimitMsg THEN "UsageLimitExceeded"
             ELSE IF e.cls = "ForbiddenError" THEN "Forbidden"
             ELSE IF e.cls = "RateLimitError" THEN "RateLimited"
             ELSE IF e.cls = "StrideAPIError" /\ e.msg = TimeoutMsg THEN "Timeout"
             ELSE IF e.cls = "HTTPStatusError" THEN "GatewayError"
             ELSE "other"
           expected ==
             IF o.kind = "timeout" THEN "Timeout"
             ELSE IF o.status = 402 THEN
               IF IsLimit402(o) THEN "UsageLimitExceeded" ELSE "PlanRestriction"
             ELSE IF o.status = 403 THEN "Forbidden"
             ELSE IF o.status = 429 THEN "RateLimited"
             ELSE "GatewayError"
       IN  received = expected

\* C5: each analyzer operation recovers exactly one gateway error kind: a
\* usage-limit error raised by the gateway call yields the sentinel result,
\* and any other error (plan restriction, forbidden, rate limited, timeout,
\* generic) propagates unchanged and no result is returned.
C5_RecoversOnlyUsageLimit ==
  (pc = "an_done" /\ gwOutcome.kind = "raise")
    => IF gwOutcome.exc = Exc("PaymentRequiredError", LimitMsg)
       THEN anOutcome = Return(LimitSentinel)
       ELSE anOutcome = Raise(gwOutcome.exc)

\* C6: when the repository is private, an analyzer operation that has made
\* its visibility check has raised the private-repository error, and the
\* gateway was never called and neither the changed files nor the issue body
\* were fetched.
C6_PrivateNeverReachesGateway ==
  (github.private /\ calls.is_public_repo > 0)
    => /\ anOutcome.kind = "raise"
       /\ anOutcome.exc.cls = "ForbiddenError"
       /\ anOutcome.exc.msg = PrivateMsg
       /\ calls.analyze = 0
       /\ calls.post = 0
       /\ calls.get_pr_files = 0
       /\ calls.get_issue_description = 0
       /\ calls.is_public_repo = 1
       /\ analysis_request = EmptyDict

\* C6 witness: a feature analysis of a private repository has ended the run
C6_Witness ==
  /\ github.private
  /\ op = "analyze_feature_description"
  /\ pc = "exited"
  /\ exit_code = 1
  /\ anOutcome.kind = "raise"

\* C7: in a public repository, once the input has been fetched, an operation
\* that has finished made no gateway call and returned the zero-threat
\* result if the changed-file list was empty (analyze_pr) or the issue body
\* blank (analyze_feature_description), and made exactly one gateway call
\* otherwise; analyze_repository always made exactly one.
C7_GatewayCalledIffInput ==
  /\ calls.analyze <= 1
  /\ pc \in {"gw_call", "gw_ret"} => calls.analyze = 1
  /\ (/\ anOutcome.kind # "none"
      /\ ~github.private
      /\ anOutcome.exc.cls # "GithubException")
       => LET blank == \A i \in 1..Len(input) : input[i] \in {" ", "\t", "\n"}
              no_input == \/ op = "analyze_pr" /\ Len(input) = 0
                          \/ op = "analyze_feature_description" /\ blank
          IN  IF no_input
              THEN /\ calls.analyze = 0
                   /\ calls.post = 0
                   /\ anOutcome.kind = "return"
                   /\ anOutcome.value.threat_count = 0
                   /\ anOutcome.value.threats = <<>>
                   /\ anOutcome.value.analysis_id = ""
                   /\ anOutcome.value.is_limited = FALSE
                   /\ "limit_reached" \notin DOMAIN anOutcome.value.usage_info
              ELSE calls.analyze = 1

\* C7 witness: a whitespace-only issue body gave the zero-threat result
C7_Witness ==
  /\ op = "analyze_feature_description"
  /\ input = <<" ", "\n">>
  /\ anOutcome.kind = "return"
  /\ calls.analyze = 0
  /\ pc = "exited"

\* C8: on a successful gateway response the result's threat_count is the
\* summary total when present and the length of the threat list otherwise,
\* threats is the response's list in its order, is_limited is the truncated
\* flag (false when absent), and upgrade_message and limitation_notice are
\* those of the response.
C8_ResultFromResponse ==
  (pc = "an_done" /\ gwOutcome.kind = "return")
    => LET r == gwOutcome.value
           res == anOutcome.value
           threats == IF "threats" \in DOMAIN r THEN r["threats"] ELSE <<>>
       IN  /\ anOutcome.kind = "return"
           /\ res.threat_count =
                IF "summary" \in DOMAIN r /\ "total" \in DOMAIN r["summary"]
                THEN r["summary"]["total"] ELSE Len(threats)
           /\ res.threats = threats
           /\ res.is_limited = ("truncated" \in DOMAIN r /\ r["truncated"])
           /\ res.upgrade_message =
                IF "upgrade_message" \in DOMAIN r THEN r["upgrade_message"] ELSE None
           /\ res.limitation_notice =
                IF "limitation_notice" \in DOMAIN r THEN r["limitation_notice"] ELSE None

\* C8 witness: the summary total differs from the number of threat records
C8_Witness ==
  /\ pc = "an_done"
  /\ gwOutcome.kind = "return"
  /\ anOutcome.kind = "return"
  /\ anOutcome.value.threat_count = MaxTotal
  /\ Len(anOutcome.value.threats) = 2
  /\ anOutcome.value.is_limited

\* C9: the repository field of every request passed to the gateway begins
\* with 'https://': a name that does not begin with it gets the prefix
\* 'https://github.com/', a name that does is unchanged, and normalizing the
\* field again changes nothing.
C9_RepositoryIsHttpsUrl ==
  analysis_request # EmptyDict
    => LET url == analysis_request["repository"]
           name == github.repo_name
       IN  /\ Len(url) >= 8
           /\ SubSeq(url, 1, 8) = <<"h","t","t","p","s",":","/","/">>
           /\ IF Len(name) >= 8 /\ SubSeq(name, 1, 8) = SubSeq(url, 1, 8)
              THEN url = name
              ELSE url = GithubPrefix \o name
           /\ repository_url(url) = url

\* C9 witness: a request built from an absolute URL and sent to the gateway
C9_Witness ==
  /\ pc = "gw_ret"
  /\ github.repo_name = GithubPrefix \o <<"o","/","n">>
  /\ analysis_request["repository"] = github.repo_name

\* C10: every request sent to the gateway names its workflow in
\* analysis_type: changed_files with the PR number for analyze_pr,
\* feature_description with options.feature_description and
\* options.issue_number for analyze_feature_description, and full_repository
\* for analyze_repository.
C10_RequestNamesWorkflow ==
  analysis_request # EmptyDict
    => /\ "analysis_type" \in DOMAIN analysis_request
       /\ analysis_request["analysis_type"] =
            IF op = "analyze_pr" THEN "changed_files"
            ELSE IF op = "analyze_feature_description" THEN "feature_description"
            ELSE "full_repository"
       /\ op = "analyze_pr" => analysis_request["pr_number"] = number
       /\ op = "analyze_feature_description" =>
            /\ analysis_request["options"]["feature_description"] = input
            /\ analysis_request["options"]["issue_number"] = number

\* letters, digits and the underscore
WordChars ==
  {UpperChars[i] : i \in 1..Len(UpperChars)}
    \cup {LowerChars[i] : i \in 1..Len(LowerChars)}
    \cup {"0","1","2","3","4","5","6","7","8","9","_"}

Blanks == {" ", "\t", "\n"}

\* the mention, in any letter case, stands at index i of body b
MentionAt(b, i) ==
  /\ i + 10 <= Len(b)
  /\ \A k \in 1..11 : b[i + k - 1] = Mention[k] \/ b[i + k - 1] = MentionUpper[k]

\* the word after the mention at index i: it spans j..k, after blanks only
TokenSpan(b, i, j, k) ==
  /\ MentionAt(b, i)
  /\ i + 11 < j /\ j <= k /\ k <= Len(b)
  /\ \A x \in (i + 11)..(j - 1) : b[x] \in Blanks
  /\ \A x \in j..k : b[x] \in WordChars
  /\ k < Len(b) => b[k + 1] \notin WordChars

\* C11: parse_command returns the lower-cased word that follows the first
\* mention (in any letter case) that has blanks and a word after it;
\* 'analyze' when the body holds a mention but none is followed by a word;
\* and None only when the body holds no mention at all.
C11_ParseCommandCases ==
  pc = "parsed" =>
    LET b == env.github_context.comment_body
        I == 1..Len(b)
        T == {i \in I : \E j \in I, k \in I : TokenSpan(b, i, j, k)}
    IN  IF T # {}
        THEN \E i \in T, j \in I, k \in I :
               /\ \A m \in T : i <= m
               /\ TokenSpan(b, i, j, k)
               /\ Len(command) = k - j + 1
               /\ \A x \in 1..Len(command) :
                    \/ command[x] = b[j + x - 1] /\ b[j + x - 1] \notin
                         {UpperChars[u] : u \in 1..Len(UpperChars)}
                    \/ \E u \in 1..Len(UpperChars) :
                         b[j + x - 1] = UpperChars[u] /\ command[x] = LowerChars[u]
        ELSE IF \E i \in I : MentionAt(b, i)
        THEN command = <<"a","n","a","l","y","z","e">>
        ELSE command = NoCommand

\* C12: a body that mentions @stride-gpt inside a sentence, the mention
\* followed by prose and not by a command, is parsed as 'analyze'.
C12_ProseDefaultsToAnalyze ==
  (/\ pc = "parsed"
   /\ env.github_context.comment_body \in
        { <<"H","e","y"," ">> \o Mention \o <<" ","c","a","n"," ","t","h","i","s","?">>,
          <<"H","e","y"," ">> \o Mention \o <<",", " ","c","a","n"," ","t","h","i","s","?">> })
    => command = <<"a","n","a","l","y","z","e">>

\* the inputs passed validation and the clients were constructed
Constructed ==
  /\ env.api_key # "" /\ env.github_token # "" /\ Len(env.repo_name) > 0
  /\ github.repo_name = env.repo_name

NoGatewayUse == calls.analyze = 0 /\ calls.post = 0 /\ calls.get_usage = 0

\* C13: in comment mode, on an issue_comment event with an issue number, a
\* body that does not contain the literal '@stride-gpt' ends the run with
\* exit status 0, and no analyze call, usage fetch or comment was made.
C13_NoMentionIsSkip ==
  (/\ pc = "exited"
   /\ Constructed
   /\ env.trigger_mode = "comment"
   /\ env.github_context.event_name = "issue_comment"
   /\ env.github_context.issue_number # 0
   /\ ~Contains(env.github_context.comment_body, Mention))
    => /\ exit_code = 0
       /\ calls = NoCalls
       /\ comments = <<>>
       /\ outputs = <<>>
       /\ op = "none"

\* C13 witness: a body whose mention is in upper case was skipped
C13_Witness ==
  /\ pc = "exited"
  /\ exit_code = 0
  /\ Constructed
  /\ env.github_context.event_name = "issue_comment"
  /\ env.github_context.issue_number = 42
  /\ env.github_context.comment_body = MentionUpper \o <<" ","H","E","L","P">>
  /\ comments = <<>>

KnownCommands ==
  { <<"h","e","l","p">>, <<"s","t","a","t","u","s">>,
    <<"a","n","a","l","y","z","e">> }

\* C14: in comment mode a command that is none of help, status, analyze
\* makes no analysis, no gateway call and writes no outputs; the run posts
\* exactly one error document naming the command to the triggering thread
\* and exits 0 (unless GitHub refuses the comment).
C14_UnknownCommandIsNormal ==
  (env.trigger_mode = "comment" /\ command \notin KnownCommands \cup {NoCommand})
    => /\ op = "none"
       /\ anOutcome = NoOutcome
       /\ NoGatewayUse
       /\ outputs = <<>>
       /\ pc = "exited" =>
            \/ /\ exit_code = 0
               /\ Len(comments) = 1
               /\ comments[1].body.template = "error"
               /\ comments[1].body.detail = command
               /\ comments[1].number = env.github_context.issue_number
               /\ comments[1].thread =
                    IF env.github_context.pull_request THEN "pr" ELSE "issue"
            \/ exit_code = 1 /\ comments = <<>> /\ doc.template = "error"

\* C14 witness: '@stride-gpt foo' was answered with the error document
C14_Witness ==
  /\ pc = "exited"
  /\ exit_code = 0
  /\ command = <<"f","o","o">>
  /\ Len(comments) = 1
  /\ comments[1].body.template = "error"
\* C15: comment-mode dispatch runs one workflow per command.  help: no
\* analyzer operation, no gateway call, no usage fetch, and the help document
\* is the comment.  status: get_usage is called exactly once and the status
\* document posted is built from the snapshot it returned.  analyze:
\* analyze_pr when the issue is a pull request and
\* analyze_feature_description otherwise, with the issue number, and at most
\* one comment, an analysis document, exactly one when the run succeeds.
C15_OneWorkflowPerCommand ==
  env.trigger_mode = "comment" =>
    LET ctx == env.github_context
        posted == comments # <<>>
    IN  /\ Len(comments) <= 1
        /\ command = <<"h","e","l","p">> =>
             /\ op = "none" /\ anOutcome = NoOutcome
             /\ calls = NoCalls
             /\ posted => comments[1].body.template = "help"
             /\ (pc = "exited" /\ exit_code = 0) => posted
        /\ command = <<"s","t","a","t","u","s">> =>
             /\ op = "none" /\ anOutcome = NoOutcome
             /\ calls.analyze = 0 /\ calls.post = 0
             /\ calls.get_usage = IF pc = "cmd_status" THEN 0 ELSE 1
             /\ posted => /\ usage.kind = "return"
                          /\ comments[1].body.template = "status"
                          /\ comments[1].body.detail.analyses_used =
                               (IF "analyses_used" \in DOMAIN usage.value
                                THEN usage.value["analyses_used"] ELSE 0)
                          /\ comments[1].body.detail.analyses_limit =
                               (IF "analyses_limit" \in DOMAIN usage.value
                                THEN usage.value["analyses_limit"] ELSE 20)
             /\ (pc = "exited" /\ exit_code = 0) => posted
        /\ command = <<"a","n","a","l","y","z","e">> =>
             /\ op = IF ctx.pull_request THEN "analyze_pr"
                     ELSE "analyze_feature_description"
             /\ number = ctx.issue_number
             /\ calls.analyze <= 1
             /\ posted => /\ anOutcome.kind = "return"
                          /\ comments[1].body.template \in
                               {"threats", "no_threats", "limit_reached"}
                          /\ comments[1].number = ctx.issue_number
             /\ (pc = "exited" /\ exit_code = 0) => posted

\* C15 witness: the analyze command on a plain issue ran the feature
\* analysis and its comment went to the issue thread
C15_Witness ==
  /\ pc = "exited"
  /\ exit_code = 0
  /\ command = <<"a","n","a","l","y","z","e">>
  /\ ~env.github_context.pull_request
  /\ op = "analyze_feature_description"
  /\ calls.analyze = 1
  /\ Len(comments) = 1
  /\ comments[1].thread = "issue"

\* the environment has one of the configuration errors
ConfigurationError(e) ==
  \/ e.api_key = "" \/ e.github_token = "" \/ e.repo_name = <<>>
  \/ e.trigger_mode \notin {"comment", "pr", "manual"}
  \/ /\ e.trigger_mode = "comment"
     /\ \/ e.github_context.event_name # "issue_comment"
        \/ e.github_context.issue_number = 0
  \/ e.trigger_mode = "pr" /\ e.github_context.pr_number = 0

\* C16: with a missing API key, GitHub token or repository name, an
\* unrecognized trigger mode, comment mode on another event or without an
\* issue number, or pr mode without a PR number, no analyze call, usage fetch
\* or comment post is ever made and the run ends with a non-zero status.
C16_ConfigurationErrorIsFatal ==
  ConfigurationError(env)
    => /\ NoGatewayUse
       /\ calls.get_pr_files = 0 /\ calls.get_issue_description = 0
       /\ op = "none"
       /\ comments = <<>>
       /\ outputs = <<>>
       /\ doc.template = "none"
       /\ pc = "exited" => exit_code # 0

\* C16 witness: pr mode without a PR number ended the run after the clients
\* were constructed
C16_Witness ==
  /\ pc = "exited"
  /\ exit_code = 1
  /\ Constructed
  /\ env.trigger_mode = "pr"
  /\ env.github_context.pr_number = 0

\* C17: an exception from the analyzer operation, from get_usage in the
\* status command, or from posting the comment ends the run with a non-zero
\* status and no later step has run: no comment after a failed analysis or
\* usage fetch, and no outputs after any of the three.
C17_UnrecoveredErrorEndsRun ==
  /\ (pc \notin {"an_done"} /\ anOutcome.kind = "raise")
       => /\ pc = "exited" /\ exit_code # 0
          /\ doc.template = "none" /\ comments = <<>> /\ outputs = <<>>
  /\ (command = <<"s","t","a","t","u","s">> /\ usage.kind = "raise")
       => /\ pc = "exited" /\ exit_code # 0
          /\ doc.template = "none" /\ comments = <<>> /\ outputs = <<>>
  /\ (pc \in {"write_outputs", "exited"} /\ doc.template # "none" /\ comments = <<>>)
       => pc = "exited" /\ exit_code # 0 /\ outputs = <<>>
  /\ outputs # <<>> => pc = "exited" /\ exit_code = 0

\* C17 witness: the gateway call failed, the operation raised, the run ended
C17_Witness ==
  /\ pc = "exited"
  /\ exit_code = 1
  /\ calls.analyze = 1
  /\ anOutcome.kind = "raise"
  /\ anOutcome.exc.cls = "RetryError"

\* C18: post_analysis_comment builds exactly one of three documents: the
\* limit-reached document whenever usage_info.limit_reached is true, whatever
\* threat_count and threats are, with no threat data in it and no plan or
\* usage lookup made for it; otherwise the no-threats document when
\* threat_count is 0; otherwise the threat-listing document.
C18_TemplatePrecedence ==
  (pc \in {"post", "write_outputs"} /\ anOutcome.kind = "return")
    => LET result == anOutcome.value
           limit == /\ "limit_reached" \in DOMAIN result.usage_info
                    /\ result.usage_info["limit_reached"] = TRUE
       IN  /\ doc.template \in {"limit_reached", "no_threats", "threats"}
           /\ doc.template = "limit_reached" <=> limit
           /\ doc.template = "no_threats" <=> (~limit /\ result.threat_count = 0)
           /\ doc.template = "threats" <=> (~limit /\ result.threat_count # 0)
           /\ limit => doc.detail = <<>> /\ calls.get_usage = 0
           /\ comments # <<>> => comments = <<[thread |-> "pr", number |-> number,
                                               body |-> doc]>>

\* C18 witness: the limit-reached document was posted for a result that has
\* threats and a non-zero count
C18_Witness ==
  /\ pc = "write_outputs"
  /\ anOutcome.value.threat_count = MaxTotal
  /\ Len(anOutcome.value.threats) = 2
  /\ Len(comments) = 1
  /\ comments[1].body.template = "limit_reached"

\* a and b are the same word up to letter case
SameWord(a, b) ==
  /\ Len(a) = Len(b)
  /\ \A i \in 1..Len(a) :
       \/ a[i] = b[i]
       \/ \E u \in 1..Len(UpperChars) :
            {a[i], b[i]} = {UpperChars[u], LowerChars[u]}

\* the severity rank of a threat record as the specification gives it
ClaimedRank(t) ==
  IF "severity" \notin DOMAIN t THEN 2
  ELSE IF SameWord(t["severity"].s, <<"c","r","i","t","i","c","a","l">>) THEN 0
  ELSE IF SameWord(t["severity"].s, <<"h","i","g","h">>) THEN 1
  ELSE IF SameWord(t["severity"].s, <<"l","o","w">>) THEN 3
  ELSE IF SameWord(t["severity"].s, <<"i","n","f","o">>) THEN 4
  ELSE 2

\* C19: the blocks of the threat-listing document are the input threats,
\* each exactly once, in non-decreasing severity rank (critical 0, high 1,
\* medium 2, low 3, info 4, letter case ignored, an unknown or missing
\* severity ranked as medium), and threats of equal rank are in API order.
C19_StableSeveritySort ==
  doc.template = "threats"
    => LET in == anOutcome.value.threats
           out == doc.detail.sorted_threats
       IN  /\ Len(out) = Len(in)
           /\ \A i \in 1..Len(in) : \E j \in 1..Len(out) : out[j] = in[i]
           /\ \A j \in 1..Len(out) : out[j] = in[out[j].id]
           /\ \A i \in 1..Len(out), j \in 1..Len(out) :
                i < j => /\ ClaimedRank(out[i]) <= ClaimedRank(out[j])
                         /\ ClaimedRank(out[i]) = ClaimedRank(out[j])
                              => out[i].id < out[j].id

\* C19 witness: low, critical, high was rendered as critical, high, low
C19_Witness ==
  /\ doc.template = "threats"
  /\ Len(anOutcome.value.threats) = 3
  /\ \A i \in 1..3 : "severity" \in DOMAIN anOutcome.value.threats[i]
  /\ anOutcome.value.threats[1]["severity"] = JStr(<<"l","o","w">>)
  /\ anOutcome.value.threats[2]["severity"] = JStr(<<"c","r","i","t","i","c","a","l">>)
  /\ anOutcome.value.threats[3]["severity"] = JStr(<<"h","i","g","h">>)
  /\ doc.detail.sorted_threats[1].id = 2
  /\ doc.detail.sorted_threats[2].id = 3
  /\ doc.detail.sorted_threats[3].id = 1

CanonicalSeverities ==
  { <<"c","r","i","t","i","c","a","l">>, <<"h","i","g","h">>,
    <<"m","e","d","i","u","m">>, <<"l","o","w">>, <<"i","n","f","o">> }

RECURSIVE SumOver(_, _)
\* the sum of f over the set S
SumOver(f, S) ==
  IF S = {} THEN 0
  ELSE LET x == CHOOSE y \in S : TRUE IN f[x] + SumOver(f, S \ {x})

\* C20: in the severity tally of the threat-listing document every threat
\* is counted in exactly one of the buckets critical, high, medium, low,
\* info, a threat with an unrecognized or missing severity in medium, so the
\* five counts sum to the number of threats rendered.
C20_TallySumsToThreats ==
  doc.template = "threats"
    => LET out == doc.detail.sorted_threats
           counts == doc.detail.severity_counts
           rankOf == [w \in CanonicalSeverities |->
                        ClaimedRank([severity |-> JStr(w)])]
       IN  /\ CanonicalSeverities \subseteq DOMAIN counts
           /\ \A w \in CanonicalSeverities :
                counts[w] = Cardinality({i \in 1..Len(out) :
                                           ClaimedRank(out[i]) = rankOf[w]})
           /\ SumOver(counts, CanonicalSeverities) = Len(out)


\* a formatter was called and has finished, with a document or an exception
Formatted == pc \notin {"render", "cmd_status_post"}

\* C21: rendering never raises: whenever the threat, no-threat or status
\* formatter has been called, on any result whose threat records omit the
\* severity or carry a null or unknown one and on any usage snapshot with
\* missing or null fields, it has returned a document.
C21_RenderingNeverRaises ==
  Formatted => doc.template \in {"threats", "no_threats", "limit_reached", "status"}


\* C22: rendering is deterministic in its input: two renderings of the same
\* AnalysisResult, whatever the usage service answers in between, give the
\* same document.
C22_RenderingIsDeterministic ==
  \A i \in 1..Len(comments), j \in 1..Len(comments) :
    comments[i].body = comments[j].body


\* the value a mapping holds for a key, or the default when it has none
ValueOr(d, k, default) == IF k \in DOMAIN d THEN d[k] ELSE default

\* the footer showing the counts and plan of the last usage answer
LiveFooter(footer) ==
  /\ footer.analyses_used = ValueOr(usage.value, "analyses_used", 0)
  /\ footer.analyses_limit = ValueOr(usage.value, "analyses_limit", 20)
  /\ footer.plan = (IF "plan" \in DOMAIN usage.value
                    THEN Lower(usage.value["plan"].s) ELSE W_free)

\* the footer showing the counts embedded in the result, labelled 'free'
FallbackFooter(footer) ==
  /\ footer.analyses_used = ValueOr(anOutcome.value.usage_info, "analyses_used", 0)
  /\ footer.analyses_limit = ValueOr(anOutcome.value.usage_info, "analyses_limit", 20)
  /\ footer.plan = W_free

AnalysisDocuments == {"threats", "no_threats", "limit_reached"}

\* C23 as stated: every document of post_analysis_comment, the limit-reached
\* one included, ends with a usage footer, which shows the live counts when
\* the fetch succeeded and the counts of usage_info otherwise.
C23_FooterOnEveryDocument ==
  doc.template \in AnalysisDocuments
    => /\ "footer" \in DOMAIN doc.detail
       /\ usage.kind = "return" => LiveFooter(doc.detail.footer)
       /\ usage.kind # "return" => FallbackFooter(doc.detail.footer)

\* the usage answer can be shown: the fetch returned and its plan, when
\* present, is a string
UsageShown ==
  /\ usage.kind = "return"
  /\ "plan" \in DOMAIN usage.value => usage.value["plan"].t = "str"

\* C23: the threat-listing and the no-threats document end with a usage
\* footer and the limit-reached document has none; the footer shows the
\* counts and plan of the live fetch when it returned with a string or
\* absent plan, and otherwise (the fetch failed, or its plan is null) the
\* analyses_used (default 0) and analyses_limit (default 20) of the result's
\* usage_info with the label 'free'.
C23_FooterOnThreatAndNoThreatDocuments ==
  doc.template \in AnalysisDocuments
    => IF doc.template = "limit_reached"
       THEN "footer" \notin DOMAIN doc.detail /\ calls.get_usage = 0
       ELSE /\ "footer" \in DOMAIN doc.detail
            /\ calls.get_usage = 2
            /\ usage = call_log[Len(call_log)].result
            /\ UsageShown => LiveFooter(doc.detail.footer)
            /\ ~UsageShown => FallbackFooter(doc.detail.footer)

\* C23 witness: the footer's fetch failed and the threat-listing document
\* shows the 5 of 50 analyses embedded in the result
C23_Witness ==
  /\ doc.template = "threats"
  /\ usage.kind = "raise"
  /\ anOutcome.value.usage_info = [analyses_used |-> 5, analyses_limit |-> 50]
  /\ doc.detail.footer = [analyses_used |-> 5, analyses_limit |-> 50, plan |-> W_free]
  /\ comments # <<>>


\* C24: the threat-listing document never shows both limitation banners: a
\* set limitation_notice is rendered verbatim and the generic banner is
\* absent; with the notice unset (None or empty) and is_limited true only the
\* generic free-tier banner is rendered; with the notice unset and
\* is_limited false neither is rendered.
C24_AtMostOneBanner ==
  doc.template = "threats"
    => LET result == anOutcome.value
           shown == doc.detail.banners
           set == result.limitation_notice \notin {None, ""}
       IN  /\ Len(shown) <= 1
           /\ set => shown = <<[kind |-> "notice",
                                text |-> result.limitation_notice]>>
           /\ (~set /\ result.is_limited)
                => Len(shown) = 1 /\ shown[1].kind = "generic"
           /\ (~set /\ ~result.is_limited) => shown = <<>>

\* C24 witness: a limited result that carries a notice was posted with the
\* notice as its only banner
C24_Witness ==
  /\ doc.template = "threats"
  /\ anOutcome.value.is_limited
  /\ anOutcome.value.limitation_notice = "Showing 3 of 5 threats"
  /\ Len(doc.detail.banners) = 1
  /\ doc.detail.banners[1].text = "Showing 3 of 5 threats"
  /\ comments # <<>>


\* C25: every comment of a run is created on the thread kind of its
\* trigger: in comment mode is_pull_request is the presence of the issue's
\* pull_request linkage and the help, status, error and analysis comments
\* go to the pull-request thread when it is present and to the issue thread
\* when it is not; in pr mode the analysis comment goes to the pull-request
\* thread.
C25_CommentOnTriggerThread ==
  LET ctx == env.github_context
      linked == IF env.trigger_mode = "comment" THEN ctx.pull_request ELSE TRUE
  IN  /\ (env.trigger_mode = "comment" /\ command # NoCommand)
           => is_pull_request = ctx.pull_request
      /\ \A i \in 1..Len(comments) :
           /\ comments[i].body.template \in
                {"help", "status", "error", "threats", "no_threats", "limit_reached"}
           /\ comments[i].thread = (IF linked THEN "pr" ELSE "issue")
           /\ comments[i].number = (IF env.trigger_mode = "comment"
                                    THEN ctx.issue_number ELSE ctx.pr_number)

\* C25 witness: the error comment for an unknown command on a plain issue
\* was created on the issue thread
C25_Witness ==
  /\ env.trigger_mode = "comment"
  /\ ~env.github_context.pull_request
  /\ comments # <<>>
  /\ comments[1].body.template = "error"
  /\ comments[1].thread = "issue"


\* the place of a collaborator call in the flow of one run
StepOf(method) ==
  IF method = "is_public_repo" THEN 1
  ELSE IF method \in {"get_pr_files", "get_issue_description"} THEN 2
  ELSE IF method = "analyze" THEN 3
  ELSE 4

\* the number of calls of a method in the log
TimesCalled(method) ==
  Cardinality({i \in 1..Len(call_log) : call_log[i].method = method})

\* C26: one run is one sequential flow: in comment (analyze) and pr modes
\* the calls come in the order classify, gather input, analyze, render,
\* post, write outputs; the input is gathered once, the gateway analysis is
\* requested at most once, at most one comment is posted, and threat-count
\* and report-url are written only after the comment was posted.
C26_OneSequentialFlow ==
  op \in {"analyze_pr", "analyze_feature_description"}
    => /\ env.trigger_mode = "comment" => command = <<"a","n","a","l","y","z","e">>
       /\ \A i \in 1..Len(call_log), j \in 1..Len(call_log) :
            i < j => \/ StepOf(call_log[i].method) < StepOf(call_log[j].method)
                     \/ call_log[i].method = "get_usage" /\ call_log[j].method = "get_usage"
       /\ TimesCalled("analyze") <= 1
       /\ TimesCalled("get_usage") <= 2
       /\ TimesCalled("get_usage") > 0 => anOutcome.kind = "return"
       /\ doc.template # "none" => anOutcome.kind = "return"
       /\ Len(comments) <= 1
       /\ comments # <<>> => comments[1].body = doc /\ doc.template # "none"
       /\ outputs # <<>> => /\ Len(comments) = 1
                            /\ outputs = <<"threat-count", "report-url">>
                            /\ pc = "exited" /\ exit_code = 0

\* C26 witness: a pr-mode run went through all steps: visibility, files,
\* analysis, two usage fetches of the rendering, one comment, both outputs
C26_Witness ==
  /\ env.trigger_mode = "pr"
  /\ Len(call_log) = 5
  /\ call_log[1].method = "is_public_repo"
  /\ call_log[2].method = "get_pr_files"
  /\ call_log[3].method = "analyze"
  /\ call_log[5].method = "get_usage"
  /\ Len(comments) = 1
  /\ outputs = <<"threat-count", "report-url">>


\* the positions of the log where a call of analyze_pr returned
Returned == {i \in 1..Len(call_log) : call_log[i].method = "analyze_pr"}

\* the collaborator calls made during the call that returned at position i
CallsOf(i) ==
  LET before == {k \in Returned : k < i}
      first == IF before = {} THEN 1
               ELSE 1 + CHOOSE k \in before : \A m \in before : m <= k
  IN  SubSeq(call_log, first, i - 1)

\* the collaborators' answers of a call, in order
AnswersOf(i) ==
  [k \in 1..Len(CallsOf(i)) |-> <<CallsOf(i)[k].method, CallsOf(i)[k].result>>]

\* files were fetched at position k and the list is not empty
FetchedFiles(k) ==
  /\ call_log[k].method = "get_pr_files"
  /\ call_log[k].result.kind = "return"
  /\ call_log[k].result.value # <<>>

\* C27: the analyzer keeps no state between calls of analyze_pr: each call
\* that got a non-empty file list makes exactly one gateway call, whose
\* request carries the PR number of that call, a call without files makes
\* none, and two calls with the same argument and the same answers of their
\* collaborators have the same result.
C27_CallsAreIsolated ==
  /\ \A k \in 1..Len(call_log) :
       call_log[k].method = "analyze"
         => /\ k > 1 /\ FetchedFiles(k - 1)
            /\ call_log[k].arg.pr_number = call_log[k - 1].arg
  /\ \A k \in 1..(Len(call_log) - 1) :
       FetchedFiles(k) => call_log[k + 1].method = "analyze"
  /\ \A i \in Returned :
       /\ \A k \in 1..Len(CallsOf(i)) :
            CallsOf(i)[k].method = "get_pr_files"
              => CallsOf(i)[k].arg = call_log[i].arg
       /\ Cardinality({k \in 1..Len(CallsOf(i)) : CallsOf(i)[k].method = "analyze"})
            = Cardinality({k \in 1..Len(CallsOf(i)) :
                             /\ CallsOf(i)[k].method = "get_pr_files"
                             /\ CallsOf(i)[k].result.kind = "return"
                             /\ CallsOf(i)[k].result.value # <<>>})
       /\ Cardinality({k \in 1..Len(CallsOf(i)) : CallsOf(i)[k].method = "analyze"}) <= 1
  /\ \A i \in Returned, j \in Returned :
       (call_log[i].arg = call_log[j].arg /\ AnswersOf(i) = AnswersOf(j))
         => call_log[i].result = call_log[j].result

\* C27 witness: analyze_pr(42) and then analyze_pr(43) both returned a
\* result and the gateway got the requests with pr_number 42 and 43
C27_Witness ==
  /\ Len(call_log) = 8
  /\ call_log[3].method = "analyze" /\ call_log[3].arg.pr_number = 42
  /\ call_log[4].method = "analyze_pr" /\ call_log[4].arg = 42
  /\ call_log[4].result.kind = "return"
  /\ call_log[7].method = "analyze" /\ call_log[7].arg.pr_number = 43
  /\ call_log[8].method = "analyze_pr" /\ call_log[8].arg = 43
  /\ call_log[8].result.kind = "return"


\* a comment-mode run on a well-formed issue_comment event has passed the
\* mention check
PastMentionCheck ==
  /\ Constructed
  /\ env.trigger_mode = "comment"
  /\ env.github_context.event_name = "issue_comment"
  /\ env.github_context.issue_number # 0
  /\ pc \notin {"start", "construct", "dispatch"}

\* C28: in comment mode main reaches the command dispatch iff the body
\* contains the exact lower-case text '@stride-gpt': a body without it, one
\* whose mention is in another letter case included, is skipped with exit 0
\* and nothing done; and in every run that reaches the dispatch the result
\* of parse_command is a command, never None.
C28_DispatchIffExactMention ==
  PastMentionCheck
    => IF Contains(env.github_context.comment_body, Mention)
       THEN /\ command # NoCommand
            /\ Len(command) > 0
            /\ \A k \in 1..Len(command) : command[k] \in WordChars
            /\ (pc = "exited" /\ exit_code = 0) => comments # <<>>
       ELSE /\ command = NoCommand
            /\ pc = "exited" /\ exit_code = 0
            /\ calls = NoCalls /\ comments = <<>> /\ doc.template = "none"

\* C28 witness: '@STRIDE-GPT HELP' was skipped with exit 0 although
\* parse_command gives help for it
C28_Witness ==
  /\ PastMentionCheck
  /\ env.github_context.comment_body = MentionUpper \o <<" ","H","E","L","P">>
  /\ parse_command(env.github_context.comment_body) = W_help
  /\ command = NoCommand
  /\ pc = "exited" /\ exit_code = 0


\* the metadata of a successful gateway response says the limit is reached
ResponseSaysLimit ==
  /\ "metadata" \in DOMAIN gwOutcome.value
  /\ "limit_reached" \in DOMAIN gwOutcome.value["metadata"]
  /\ gwOutcome.value["metadata"]["limit_reached"] = TRUE

\* C29: a result built from a successful gateway response has the
\* response's metadata as its usage_info ({} when the response has none), so
\* its document is the limit-reached one whenever the metadata carries
\* limit_reached; a result of the empty-input short-circuits has usage_info
\* {} and its document is never the limit-reached one.
C29_UsageInfoIsResponseMetadata ==
  anOutcome.kind = "return"
    => /\ (calls.analyze = 1 /\ gwOutcome.kind = "return")
            => /\ anOutcome.value.usage_info =
                    (IF "metadata" \in DOMAIN gwOutcome.value
                     THEN gwOutcome.value["metadata"] ELSE EmptyDict)
               /\ (ResponseSaysLimit /\ doc.template # "none")
                    => doc.template = "limit_reached"
               /\ doc.template = "limit_reached" => ResponseSaysLimit
       /\ calls.analyze = 0
            => /\ anOutcome.value.usage_info = EmptyDict
               /\ anOutcome.value.threat_count = 0
               /\ doc.template \in {"none", "no_threats"}

\* C29 witness: a successful response with threats whose metadata carries
\* limit_reached was posted as the limit-reached document
C29_Witness ==
  /\ gwOutcome.kind = "return"
  /\ ResponseSaysLimit
  /\ anOutcome.kind = "return"
  /\ anOutcome.value.threats # <<>>
  /\ doc.template = "limit_reached"
  /\ comments # <<>>


\* C30: in manual mode the run calls analyze_repository once, posts no
\* comment and never calls get_usage; a run that succeeds has written the
\* threat-count output alone and exits 0.
C30_ManualModeWritesCountOnly ==
  env.trigger_mode = "manual"
    => /\ op \in {"none", "analyze_repository"}
       /\ (Constructed /\ pc \notin {"start", "construct", "dispatch"})
            => op = "analyze_repository"
       /\ TimesCalled("is_public_repo") <= 1
       /\ TimesCalled("analyze") <= 1
       /\ (op = "analyze_repository" /\ pc # "an_start")
            => TimesCalled("is_public_repo") = 1
       /\ calls.get_pr_files = 0 /\ calls.get_issue_description = 0
       /\ calls.get_usage = 0 /\ TimesCalled("get_usage") = 0
       /\ comments = <<>> /\ doc.template = "none"
       /\ outputs \in {<<>>, <<"threat-count">>}
       /\ outputs # <<>> => pc = "exited" /\ exit_code = 0
       /\ (pc = "exited" /\ exit_code = 0)
            => /\ anOutcome.kind = "return"
               /\ TimesCalled("analyze") = 1
               /\ outputs = <<"threat-count">>

\* C30 witness: a manual run whose analysis found threats ended with exit 0,
\* the threat-count output and no comment
C30_Witness ==
  /\ env.trigger_mode = "manual"
  /\ pc = "exited" /\ exit_code = 0
  /\ anOutcome.kind = "return" /\ anOutcome.value.threats # <<>>
  /\ outputs = <<"threat-count">>
  /\ comments = <<>>

====
